---- MODULE Spec2Model ----
(***************************************************************************)
(* Model of src/main.py: the instruction parser and action planner of      *)
(* LLMClient, the action executor and the send_email orchestrator of       *)
(* WebAutomationAgent, the send_email_endpoint wrapper of AutomationAPI    *)
(* and the main script.  Python strings are sequences of one-character     *)
(* strings, so that lower(), split(), replace() and capitalize() are       *)
(* computed character by character.                                        *)
(***************************************************************************)
EXTENDS Integers, Sequences, FiniteSets, TLC

VARIABLES
  caller,       \* who drives the agent: "main", "api", "exec" or "parse"
  pc,           \* position of the running call
  instruction,  \* argument of the running send_email / parse call
  email_data,   \* local of send_email (EmailInstruction), NoData before parsing
  actions,      \* list of action dicts handed to execute_actions
  data,         \* bindings dict, as its ordered list of items
  idx,          \* execute_actions: index of the action of the current iteration
  browser,      \* "open" until browser.close() has run
  playwright,   \* "running" until playwright.stop() has run
  sends,        \* number of send_email calls started on this agent
  status,       \* status of the last send_email_endpoint reply, "none" before
  calls,        \* page operations invoked during the running call, in order
  attempts,     \* execute_actions: indices of the loop iterations started
  stages,       \* orchestrator states entered by the running send_email
  caught,       \* stage whose exception reached send_email's except clause
  closeCalls,   \* number of browser.close() invocations on this agent
  stopCalls,    \* number of playwright.stop() invocations on this agent
  envFault      \* some page operation raised while the browser was open

vars == <<caller, pc, instruction, email_data, actions, data, idx, browser,
          playwright, sends, status, calls, attempts, stages, caught,
          closeCalls, stopCalls, envFault>>

----------------------------------------------------------------------------
(* Bounds *)

MaxWords == 3

MaxActions == 3

MaxSends == 2

----------------------------------------------------------------------------
(* Python string operations *)

UpperChars ==
  <<"A","B","C","D","E","F","G","H","I","J","K","L","M","N","O","P","Q","R","S","T","U","V","W","X","Y","Z">>

LowerChars ==
  <<"a","b","c","d","e","f","g","h","i","j","k","l","m","n","o","p","q","r","s","t","u","v","w","x","y","z">>

\* str.lower() on one character
lower_char(c) ==
  IF \E k \in 1..26 : UpperChars[k] = c
  THEN LowerChars[CHOOSE k \in 1..26 : UpperChars[k] = c]
  ELSE c

\* str.upper() on one character
upper_char(c) ==
  IF \E k \in 1..26 : LowerChars[k] = c
  THEN UpperChars[CHOOSE k \in 1..26 : LowerChars[k] = c]
  ELSE c

\* str.lower()
lower(s) == [k \in 1..Len(s) |-> lower_char(s[k])]

\* str.capitalize(): first character upper-cased, the rest lower-cased
capitalize(s) ==
  [k \in 1..Len(s) |-> IF k = 1 THEN upper_char(s[k]) ELSE lower_char(s[k])]

\* s[p:p+len(sub)] == sub
MatchAt(s, sub, p) ==
  /\ p + Len(sub) - 1 <= Len(s)
  /\ \A k \in 1..Len(sub) : s[p + k - 1] = sub[k]

\* str.find(sub, p) with 1-based positions, 0 when absent
RECURSIVE find(_, _, _)
find(s, sub, p) ==
  IF p + Len(sub) - 1 > Len(s) THEN 0
  ELSE IF MatchAt(s, sub, p) THEN p
  ELSE find(s, sub, p + 1)

\* sub in s
contains(s, sub) == find(s, sub, 1) # 0

\* str.split(sep), sep non-empty
RECURSIVE split(_, _)
split(s, sep) ==
  LET p == find(s, sep, 1) IN
  IF p = 0 THEN <<s>>
  ELSE <<SubSeq(s, 1, p - 1)>> \o split(SubSeq(s, p + Len(sep), Len(s)), sep)

\* str.replace(old, new), old non-empty: left to right, non-overlapping
RECURSIVE replace(_, _, _)
replace(s, old, new) ==
  LET p == find(s, old, 1) IN
  IF p = 0 THEN s
  ELSE SubSeq(s, 1, p - 1) \o new
         \o replace(SubSeq(s, p + Len(old), Len(s)), old, new)

----------------------------------------------------------------------------
(* EmailService and LLMClient.parse_email_instruction *)

GMAIL == "GMAIL"

OUTLOOK == "OUTLOOK"

\* EmailService.value
ServiceValue(service) ==
  IF service = GMAIL THEN <<"g","m","a","i","l">> ELSE <<"o","u","t","l","o","o","k">>

DefaultRecipient ==
  <<"t","e","s","t","@","e","x","a","m","p","l","e",".","c","o","m">>

DefaultSubject ==
  <<"A","u","t","o","m","a","t","e","d"," ","E","m","a","i","l">>

DefaultBody ==
  <<"T","h","i","s"," ","i","s"," ","a","n"," ","a","u","t","o","m","a","t","e","d"," ","e","m","a","i","l"," ","s","e","n","t"," ","b","y"," ","t","h","e"," ","H","u","m","a","e","i","n"," ","A","I"," ","a","g","e","n","t",".">>

\* mutant: the candidate is accepted without looking for "@"
ParseRecipient_NoAtCheck(instruction_) ==
  IF contains(lower(instruction_), <<"t","o"," ">>)
  THEN split(split(lower(instruction_), <<"t","o"," ">>)[2], <<" ">>)[1]
  ELSE DefaultRecipient

ParseRecipient(instruction_) ==
  IF contains(lower(instruction_), <<"t","o"," ">>)
  THEN LET parts == split(lower(instruction_), <<"t","o"," ">>) IN
       IF Len(parts) > 1
       THEN LET recipient_part == split(parts[2], <<" ">>)[1] IN
            IF contains(recipient_part, <<"@">>)
            THEN recipient_part
            ELSE DefaultRecipient
       ELSE DefaultRecipient
  ELSE DefaultRecipient

\* mutant: the subject stops at the next space-separated " using"
ParseSubject_StopAtUsing(instruction_) ==
  IF contains(lower(instruction_), <<"a","b","o","u","t"," ">>)
  THEN capitalize(split(split(split(lower(instruction_), <<"a","b","o","u","t"," ">>)[2],
                              <<".">>)[1], <<" ","u","s","i","n","g">>)[1])
  ELSE DefaultSubject

ParseSubject(instruction_) ==
  IF contains(lower(instruction_), <<"a","b","o","u","t"," ">>)
  THEN LET parts == split(lower(instruction_), <<"a","b","o","u","t"," ">>) IN
       IF Len(parts) > 1
       THEN capitalize(split(parts[2], <<".">>)[1])
       ELSE DefaultSubject
  ELSE DefaultSubject

\* mutant: the two tests in the other order
ParseService_OutlookFirst(instruction_) ==
  IF contains(lower(instruction_), <<"o","u","t","l","o","o","k">>) THEN OUTLOOK
  ELSE GMAIL

ParseService(instruction_) ==
  IF contains(lower(instruction_), <<"g","m","a","i","l">>) THEN GMAIL
  ELSE IF contains(lower(instruction_), <<"o","u","t","l","o","o","k">>) THEN OUTLOOK
  ELSE GMAIL

parse_email_instruction(instruction_) ==
  [recipient |-> ParseRecipient(instruction_),
   subject   |-> ParseSubject(instruction_),
   body      |-> DefaultBody,
   service   |-> ParseService(instruction_)]

NoData == [recipient |-> <<>>, subject |-> <<>>, body |-> <<>>, service |-> "none"]


----------------------------------------------------------------------------
(* LLMClient.analyze_ui_and_generate_actions *)

GmailActions ==
  << [action |-> "click", selector |-> "div[role='button'][gh='cm']",
      description |-> "Click compose button"],
     [action |-> "fill", selector |-> "input[aria-label='To']",
      value |-> <<"$","{","r","e","c","i","p","i","e","n","t","}">>, description |-> "Fill recipient field"],
     [action |-> "fill", selector |-> "input[aria-label='Subject']",
      value |-> <<"$","{","s","u","b","j","e","c","t","}">>, description |-> "Fill subject field"],
     [action |-> "fill", selector |-> "div[aria-label='Message Body']",
      value |-> <<"$","{","b","o","d","y","}">>, description |-> "Fill body field"],
     [action |-> "click", selector |-> "div[role='button'][aria-label*='Send']",
      description |-> "Click send button"] >>

OutlookActions ==
  << [action |-> "click", selector |-> "button[aria-label='New message']",
      description |-> "Click new message button"],
     [action |-> "fill", selector |-> "input[aria-label='To']",
      value |-> <<"$","{","r","e","c","i","p","i","e","n","t","}">>, description |-> "Fill recipient field"],
     [action |-> "fill", selector |-> "input[aria-label='Add a subject']",
      value |-> <<"$","{","s","u","b","j","e","c","t","}">>, description |-> "Fill subject field"],
     [action |-> "fill", selector |-> "div[aria-label='Message body']",
      value |-> <<"$","{","b","o","d","y","}">>, description |-> "Fill body field"],
     [action |-> "click", selector |-> "button[aria-label='Send']",
      description |-> "Click send button"] >>

analyze_ui_and_generate_actions(html, goal) ==
  IF contains(lower(goal), <<"g","m","a","i","l">>) THEN GmailActions ELSE OutlookActions

\* f"Send email using {email_data.service.value}"
Goal(service) == <<"S","e","n","d"," ","e","m","a","i","l"," ","u","s","i","n","g"," ">> \o ServiceValue(service)

\* the data dict built by send_email, as its items in insertion order
Bindings(ed) ==
  << [key |-> <<"r","e","c","i","p","i","e","n","t">>, val |-> ed.recipient],
     [key |-> <<"s","u","b","j","e","c","t">>,   val |-> ed.subject],
     [key |-> <<"b","o","d","y">>,      val |-> ed.body] >>

----------------------------------------------------------------------------
(* The page: every operation on it either returns or raises *)

\* A page operation may raise (selector not found, timeout, target crashed)
\* while the browser is open; once browser.close() has run it always raises.
PageOutcomes == IF browser = "open" THEN {TRUE, FALSE} ELSE {FALSE}

\* one invocation of a page capability, as recorded in calls
PageCall(op, i, arg, text, ok) ==
  [op |-> op, i |-> i, arg |-> arg, text |-> text, ok |-> ok,
   released |-> browser = "closed"]

Invoke(op, i, arg, text, ok) ==
  /\ calls' = Append(calls, PageCall(op, i, arg, text, ok))
  /\ envFault' = (envFault \/ (browser = "open" /\ ~ok))

----------------------------------------------------------------------------
(* WebAutomationAgent.execute_actions *)

\* f"${{{key}}}"
Placeholder(key) == <<"$", "{">> \o key \o <<"}">>

\* for key, val in data.items(): value = value.replace(f"${{{key}}}", val)
RECURSIVE Resolve(_, _)
Resolve(value, items) ==
  IF items = <<>> THEN value
  ELSE Resolve(replace(value, Placeholder(Head(items).key), Head(items).val),
               Tail(items))

\* What one loop iteration does with its action before the settle delay:
\* a KeyError on a missing key, a click, a fill, or nothing for another kind.
Dispatch(action, items) ==
  IF ~({"action", "selector", "description"} \subseteq DOMAIN action)
  THEN [op |-> "KeyError", arg |-> "", text |-> <<>>]
  ELSE IF action.action = "click"
  THEN [op |-> "click", arg |-> action.selector, text |-> <<>>]
  ELSE IF action.action = "fill"
  THEN IF "value" \in DOMAIN action
       THEN [op |-> "fill", arg |-> action.selector,
             text |-> Resolve(action.value, items)]
       ELSE [op |-> "KeyError", arg |-> "", text |-> <<>>]
  ELSE [op |-> "none", arg |-> "", text |-> <<>>]

\* mutant: the except clause leaves the loop
ExceptContinue_Abort(i) == Len(actions) + 1

\* except Exception: log the error; the for loop goes on with the next action
ExceptContinue(i) == i + 1

\* lines 118-132 of one iteration: the lookups and the page operation
ExecAction ==
  /\ pc = "Executing"
  /\ idx <= Len(actions)
  /\ attempts' = Append(attempts, idx)
  /\ LET d == Dispatch(actions[idx], data) IN
     IF d.op = "KeyError"
     THEN /\ idx' = ExceptContinue(idx)
          /\ UNCHANGED <<pc, calls, envFault>>
     ELSE IF d.op = "none"
     THEN /\ pc' = "ExecutingWait"
          /\ UNCHANGED <<idx, calls, envFault>>
     ELSE \E ok \in PageOutcomes :
            /\ Invoke(d.op, idx, d.arg, d.text, ok)
            /\ IF ok
               THEN pc' = "ExecutingWait" /\ idx' = idx
               ELSE pc' = pc /\ idx' = ExceptContinue(idx)
  /\ UNCHANGED <<caller, instruction, email_data, actions, data, browser,
                 playwright, sends, status, stages, caught, closeCalls,
                 stopCalls>>

\* line 134: the delay after the page operation, inside the same try
ExecWait ==
  /\ pc = "ExecutingWait"
  /\ \E ok \in PageOutcomes :
       /\ Invoke("wait", idx, "1000", <<>>, ok)
       /\ idx' = IF ok THEN idx + 1 ELSE ExceptContinue(idx)
  /\ pc' = "Executing"
  /\ UNCHANGED <<caller, instruction, email_data, actions, data, browser,
                 playwright, sends, status, attempts, stages, caught,
                 closeCalls, stopCalls>>

\* the for loop is exhausted: execute_actions returns None to its caller
ExecReturn ==
  /\ pc = "Executing"
  /\ idx > Len(actions)
  /\ pc' = IF caller = "exec" THEN "ExecReturned" ELSE "Cleanup"
  /\ UNCHANGED <<caller, instruction, email_data, actions, data, idx, browser,
                 playwright, sends, status, calls, attempts, stages, caught,
                 closeCalls, stopCalls, envFault>>


----------------------------------------------------------------------------
(* WebAutomationAgent.send_email *)

\* the URL navigate_to_service opens
ServiceUrl(service) ==
  IF service = GMAIL THEN "https://mail.google.com" ELSE "https://outlook.live.com"

\* entry of send_email(instr) on the agent
CallSendEmail(instr) ==
  /\ pc = "Idle"
  /\ pc' = "Parsing"
  /\ instruction' = instr
  /\ sends' = sends + 1
  /\ email_data' = NoData
  /\ actions' = <<>>
  /\ data' = <<>>
  /\ idx' = 0
  /\ calls' = <<>>
  /\ attempts' = <<>>
  /\ stages' = <<"Parsing">>
  /\ caught' = "none"
  /\ UNCHANGED <<caller, browser, playwright, status, closeCalls, stopCalls,
                 envFault>>

\* an exception raised inside the try block reaches "except Exception"
\* (logged), and control moves on to the finally block
Except(stage) ==
  /\ caught' = stage
  /\ pc' = "Cleanup"
  /\ stages' = stages

\* the statement of the try block at `stage` returned (ok) or raised
Proceed(ok, stage, nextpc, entered) ==
  IF ok
  THEN /\ pc' = nextpc
       /\ stages' = stages \o entered
       /\ caught' = caught
  ELSE Except(stage)

\* self.llm.parse_email_instruction(instruction)
Parse ==
  /\ pc = "Parsing"
  /\ email_data' = parse_email_instruction(instruction)
  /\ IF caller = "parse"
     THEN pc' = "Parsed" /\ stages' = stages
     ELSE pc' = "Navigating" /\ stages' = Append(stages, "Navigating")
  /\ UNCHANGED <<caller, instruction, actions, data, idx, browser, playwright,
                 sends, status, calls, attempts, caught, closeCalls, stopCalls,
                 envFault>>

\* navigate_to_service: self.page.goto(url)
NavigateGoto ==
  /\ pc = "Navigating"
  /\ \E ok \in PageOutcomes :
       /\ Invoke("goto", 0, ServiceUrl(email_data.service), <<>>, ok)
       /\ Proceed(ok, "Navigating", "NavigatingWait", <<>>)
  /\ UNCHANGED <<caller, instruction, email_data, actions, data, idx, browser,
                 playwright, sends, status, attempts, closeCalls, stopCalls>>

\* navigate_to_service: self.page.wait_for_timeout(3000)
NavigateWait ==
  /\ pc = "NavigatingWait"
  /\ \E ok \in PageOutcomes :
       /\ Invoke("wait", 0, "3000", <<>>, ok)
       /\ Proceed(ok, "Navigating", "Authenticating", <<"Authenticating">>)
  /\ UNCHANGED <<caller, instruction, email_data, actions, data, idx, browser,
                 playwright, sends, status, attempts, closeCalls, stopCalls>>

\* mock_authentication: self.page.wait_for_timeout(2000)
MockAuthentication ==
  /\ pc = "Authenticating"
  /\ \E ok \in PageOutcomes :
       /\ Invoke("wait", 0, "2000", <<>>, ok)
       /\ Proceed(ok, "Authenticating", "Planning", <<"Planning">>)
  /\ UNCHANGED <<caller, instruction, email_data, actions, data, idx, browser,
                 playwright, sends, status, attempts, closeCalls, stopCalls>>

\* html = self.page.content(); the planner call; the data dict
Plan ==
  /\ pc = "Planning"
  /\ \E ok \in PageOutcomes :
       /\ Invoke("content", 0, "", <<>>, ok)
       /\ Proceed(ok, "Planning", "Executing", <<"Executing">>)
       /\ IF ok
          THEN /\ actions' = analyze_ui_and_generate_actions(
                               "html", Goal(email_data.service))
               /\ data' = Bindings(email_data)
               /\ idx' = 1
          ELSE UNCHANGED <<actions, data, idx>>
  /\ UNCHANGED <<caller, instruction, email_data, browser, playwright, sends,
                 status, attempts, closeCalls, stopCalls>>

\* finally: self.page.wait_for_timeout(3000); when it raises, the exception
\* leaves send_email and the two statements after it are skipped
FinallyWait ==
  /\ pc = "Cleanup"
  /\ \E ok \in PageOutcomes :
       /\ Invoke("wait", 0, "3000", <<>>, ok)
       /\ pc' = IF ok THEN "Closing" ELSE "Raised"
  /\ UNCHANGED <<caller, instruction, email_data, actions, data, idx, browser,
                 playwright, sends, status, attempts, stages, caught,
                 closeCalls, stopCalls>>

\* finally: self.browser.close()
BrowserClose ==
  /\ pc = "Closing"
  /\ browser' = "closed"
  /\ closeCalls' = closeCalls + 1
  /\ pc' = "Stopping"
  /\ UNCHANGED <<caller, instruction, email_data, actions, data, idx,
                 playwright, sends, status, calls, attempts, stages, caught,
                 stopCalls, envFault>>

\* finally: self.playwright.stop(); send_email returns None
PlaywrightStop ==
  /\ pc = "Stopping"
  /\ playwright' = "stopped"
  /\ stopCalls' = stopCalls + 1
  /\ stages' = Append(stages, "Closed")
  /\ pc' = "Returned"
  /\ UNCHANGED <<caller, instruction, email_data, actions, data, idx, browser,
                 sends, status, calls, attempts, caught, closeCalls, envFault>>

----------------------------------------------------------------------------
(* The callers: AutomationAPI.send_email_endpoint and the main script *)

MainInstructions ==
  << <<"S","e","n","d"," ","a","n"," ","e","m","a","i","l"," ","t","o"," ","c","o","l","l","e","a","g","u","e","@","c","o","m","p","a","n","y",".","c","o","m"," ","a","b","o","u","t"," ","t","h","e"," ","p","r","o","j","e","c","t"," ","u","p","d","a","t","e"," ","u","s","i","n","g"," ","G","m","a","i","l">>,
     <<"S","e","n","d"," ","a","n"," ","e","m","a","i","l"," ","t","o"," ","f","r","i","e","n","d","@","e","x","a","m","p","l","e",".","c","o","m"," ","a","b","o","u","t"," ","o","u","r"," ","w","e","e","k","e","n","d"," ","p","l","a","n","s"," ","u","s","i","n","g"," ","O","u","t","l","o","o","k">> >>

ScenarioInstruction ==
  <<"S","e","n","d"," ","a","n"," ","e","m","a","i","l"," ","t","o"," ","a","@","b",".","c","o","m"," ","a","b","o","u","t"," ","t","h","e"," ","m","e","e","t","i","n","g"," ","u","s","i","n","g"," ","G","m","a","i","l">>

TemplateInstruction ==
  <<"S","e","n","d"," ","a","n"," ","e","m","a","i","l"," ","t","o"," ","$","{","s","u","b","j","e","c","t","}","@","x",".","c","o","m"," ","a","b","o","u","t"," ","h","i">>

\* instructions handed to send_email_endpoint
ApiInstructions ==
  {ScenarioInstruction, TemplateInstruction, MainInstructions[2]}

\* try: self.agent.send_email(instruction); return success
\* except Exception: return error
EndpointStatus(returned) == IF returned THEN "success" ELSE "error"

\* send_email_endpoint calls self.agent.send_email(instruction)
EndpointCall ==
  /\ caller = "api"
  /\ sends < MaxSends
  /\ \E instr \in ApiInstructions : CallSendEmail(instr)

\* send_email_endpoint builds its reply
EndpointReply ==
  /\ caller = "api"
  /\ pc \in {"Returned", "Raised"}
  /\ status' = EndpointStatus(pc = "Returned")
  /\ pc' = "Idle"
  /\ UNCHANGED <<caller, instruction, email_data, actions, data, idx, browser,
                 playwright, sends, calls, attempts, stages, caught,
                 closeCalls, stopCalls, envFault>>

\* for instruction in instructions: agent.send_email(instruction)
MainCall ==
  /\ caller = "main"
  /\ sends < Len(MainInstructions)
  /\ CallSendEmail(MainInstructions[sends + 1])

\* send_email is back in the for loop; an exception it let out is not
\* handled there and ends the script
MainLoop ==
  /\ caller = "main"
  /\ pc \in {"Returned", "Raised"}
  /\ pc' = IF pc = "Returned" THEN "Idle" ELSE "Crashed"
  /\ UNCHANGED <<caller, instruction, email_data, actions, data, idx, browser,
                 playwright, sends, status, calls, attempts, stages, caught,
                 closeCalls, stopCalls, envFault>>

----------------------------------------------------------------------------
(* Specifications *)

\* WebAutomationAgent.__init__ has run; nothing has been called yet
Fresh ==
  /\ email_data = NoData
  /\ browser = "open"
  /\ playwright = "running"
  /\ sends = 0
  /\ status = "none"
  /\ calls = <<>>
  /\ attempts = <<>>
  /\ caught = "none"
  /\ closeCalls = 0
  /\ stopCalls = 0
  /\ envFault = FALSE

\* The agent driven by the main script or through send_email_endpoint
Init ==
  /\ caller \in {"main", "api"}
  /\ pc = "Idle"
  /\ instruction = <<>>
  /\ actions = <<>>
  /\ data = <<>>
  /\ idx = 0
  /\ stages = <<>>
  /\ Fresh

Next ==
  \/ MainCall
  \/ EndpointCall
  \/ Parse
  \/ NavigateGoto
  \/ NavigateWait
  \/ MockAuthentication
  \/ Plan
  \/ ExecAction
  \/ ExecWait
  \/ ExecReturn
  \/ FinallyWait
  \/ BrowserClose
  \/ PlaywrightStop
  \/ EndpointReply
  \/ MainLoop

Spec == Init /\ [][Next]_vars


----------------------------------------------------------------------------
(* parse_email_instruction applied to instructions made of a few words *)

Words ==
  { <<"t","o">>, <<"T","O">>, <<"p","h","o","t","o">>, <<"b","o","b">>, <<"a","@","b",".","c","o","m">>,
    <<"A","@","B",".","c","o">>, <<"c","@","d",".","t","o">>, <<"G","m","a","i","l">>, <<"O","U","T","L","O","O","K">> }

\* " ".join(ws)
RECURSIVE Join(_)
Join(ws) ==
  IF Len(ws) = 1 THEN ws[1]
  ELSE ws[1] \o <<" ">> \o Join(Tail(ws))

ParseInputs ==
  { Join(ws) : ws \in UNION { [1..n -> Words] : n \in 1..MaxWords } }

InitParse ==
  /\ caller = "parse"
  /\ pc = "Parsing"
  /\ instruction \in ParseInputs
  /\ actions = <<>>
  /\ data = <<>>
  /\ idx = 0
  /\ stages = <<>>
  /\ Fresh

NextParse == Parse

SpecParse == InitParse /\ [][NextParse]_vars

----------------------------------------------------------------------------
(* execute_actions called directly with any short action list and bindings *)

ActionChoices ==
  { [action |-> "click", selector |-> "#btn", description |-> "Click"],
    [action |-> "fill", selector |-> "#to", value |-> <<"$","{","r","e","c","i","p","i","e","n","t","}">>,
     description |-> "Fill recipient"],
    [action |-> "fill", selector |-> "#cc", value |-> <<"$","{","m","i","s","s","i","n","g","}">>,
     description |-> "Fill unbound"],
    [action |-> "fill", selector |-> "#x", description |-> "Fill, no value"],
    [action |-> "hover", selector |-> "#h", description |-> "Other kind"] }

BindingChoices ==
  { <<>>,
    << [key |-> <<"r","e","c","i","p","i","e","n","t">>, val |-> <<"r","@","x",".","c","o","m">>] >>,
    << [key |-> <<"r","e","c","i","p","i","e","n","t">>, val |-> <<"$","{","s","u","b","j","e","c","t","}">>],
       [key |-> <<"s","u","b","j","e","c","t">>, val |-> <<"s">>] >> }

InitExec ==
  /\ caller = "exec"
  /\ pc = "Executing"
  /\ instruction = <<>>
  /\ actions \in UNION { [1..n -> ActionChoices] : n \in 0..MaxActions }
  /\ data \in BindingChoices
  /\ idx = 1
  /\ stages = <<>>
  /\ Fresh

NextExec ==
  \/ ExecAction
  \/ ExecWait
  \/ ExecReturn

SpecExec == InitExec /\ [][NextExec]_vars


----------------------------------------------------------------------------
(* Vocabulary of the properties *)

\* s contains sub when letter case is ignored (sub is lower case)
ContainsCI(s, sub) ==
  \E p \in 1..Len(s) :
    /\ p + Len(sub) - 1 <= Len(s)
    /\ \A k \in 1..Len(sub) : lower_char(s[p + k - 1]) = sub[k]

HasAt(s) == \E k \in 1..Len(s) : s[k] = "@"

\* position of the first space of s at or after p, Len(s) + 1 when none
SpaceFrom(s, p) ==
  IF \E q \in p..Len(s) : s[q] = " "
  THEN CHOOSE q \in p..Len(s) :
         s[q] = " " /\ \A r \in p..(q - 1) : s[r] # " "
  ELSE Len(s) + 1

\* the space-delimited token of s that starts at p
TokenAt(s, p) == SubSeq(s, p, SpaceFrom(s, p) - 1)

\* "to " stands at position p of s
ToAt(s, p) == MatchAt(s, <<"t","o"," ">>, p)

\* the page operations of loop iteration j that are recorded in calls
CallsOf(j, ops) == { k \in DOMAIN calls : calls[k].i = j /\ calls[k].op \in ops }

\* value with every ${key} of a bound key replaced by its binding in one
\* pass over value; text that comes from a binding is not looked at again
RECURSIVE Substituted(_, _, _)
Substituted(value, items, p) ==
  IF p > Len(value) THEN <<>>
  ELSE IF \E n \in 1..Len(items) : MatchAt(value, Placeholder(items[n].key), p)
  THEN LET n == CHOOSE m \in 1..Len(items) :
                  MatchAt(value, Placeholder(items[m].key), p)
       IN items[n].val
            \o Substituted(value, items, p + Len(Placeholder(items[n].key)))
  ELSE <<value[p]>> \o Substituted(value, items, p + 1)

----------------------------------------------------------------------------
(* Properties *)

\* C1: when the one send operation on a fresh agent has ended, whatever
\* raised on the way, the orchestrator has reached Closed and browser.close
\* and playwright.stop have each been invoked exactly once.
C1_ReleasedWhenSendEnds ==
  (sends = 1 /\ pc \in {"Returned", "Raised"}) =>
    /\ closeCalls = 1
    /\ stopCalls = 1
    /\ Len(stages) > 0
    /\ stages[Len(stages)] = "Closed"

\* C2: no exception leaves send_email, and once a stage's exception has been
\* caught no later pipeline stage is entered: the last stage entered before
\* Closed is the one that failed.
C2_ExceptionsContained ==
  /\ pc \notin {"Raised", "Crashed"}
  /\ caught # "none" =>
       \E n \in 1..Len(stages) :
         /\ stages[n] = caught
         /\ \A m \in (n + 1)..Len(stages) : stages[m] = "Closed"

\* C3: a reply of send_email_endpoint to a send in which a pipeline stage
\* raised has status "error"; "success" is replied only when none failed.
C3_FailureReported ==
  (caller = "api" /\ pc = "Idle" /\ sends > 0 /\ caught # "none") =>
    status = "error"

\* C4: execute_actions starts one loop iteration per action, in list order,
\* each exactly once; when it returns every action of the list has been
\* attempted and every well-formed click or fill action has had its page
\* operation invoked exactly once, whichever earlier operations raised; it
\* never ends in any other way than returning.
C4_FaultIsolation ==
  /\ \A j \in 1..Len(attempts) : attempts[j] = j
  /\ Len(attempts) <= Len(actions)
  /\ \A k \in DOMAIN calls : \A m \in DOMAIN calls :
       (k < m /\ calls[k].i > 0 /\ calls[m].i > 0) => calls[k].i <= calls[m].i
  /\ caller = "exec" => pc \in {"Executing", "ExecutingWait", "ExecReturned"}
  /\ pc = "ExecReturned" =>
       /\ Len(attempts) = Len(actions)
       /\ \A j \in 1..Len(actions) :
            LET d == Dispatch(actions[j], data) IN
            d.op \in {"click", "fill"} =>
              /\ Cardinality(CallsOf(j, {"click", "fill"})) = 1
              /\ \A k \in CallsOf(j, {"click", "fill"}) :
                   calls[k].op = d.op /\ calls[k].arg = actions[j].selector

\* C4 witness: a list of three actions has been executed, the page operation
\* of the first raised and that of the third was still invoked.
C4_Witness ==
  /\ pc = "ExecReturned"
  /\ Len(actions) = 3
  /\ \E k \in CallsOf(1, {"click", "fill"}) : ~calls[k].ok
  /\ CallsOf(3, {"click", "fill"}) # {}

\* C5 (as claimed): an instruction that contains "gmail" parses to Gmail,
\* one that contains "outlook" parses to Outlook, one with neither to Gmail.
C5_ServiceAsClaimed ==
  pc = "Parsed" =>
    /\ ContainsCI(instruction, <<"g","m","a","i","l">>) => email_data.service = GMAIL
    /\ ContainsCI(instruction, <<"o","u","t","l","o","o","k">>) => email_data.service = OUTLOOK
    /\ (~ContainsCI(instruction, <<"g","m","a","i","l">>)
          /\ ~ContainsCI(instruction, <<"o","u","t","l","o","o","k">>))
         => email_data.service = GMAIL

\* C5 (amended): an instruction that contains "gmail" parses to Gmail, also
\* when it contains "outlook" as well; one that contains "outlook" and not
\* "gmail" parses to Outlook; one with neither parses to Gmail.
C5_ServiceSelection ==
  pc = "Parsed" =>
    /\ ContainsCI(instruction, <<"g","m","a","i","l">>) => email_data.service = GMAIL
    /\ (ContainsCI(instruction, <<"o","u","t","l","o","o","k">>)
          /\ ~ContainsCI(instruction, <<"g","m","a","i","l">>))
         => email_data.service = OUTLOOK
    /\ (~ContainsCI(instruction, <<"g","m","a","i","l">>)
          /\ ~ContainsCI(instruction, <<"o","u","t","l","o","o","k">>))
         => email_data.service = GMAIL

\* C5 witness: an instruction naming both services has parsed to Gmail.
C5_Witness ==
  /\ pc = "Parsed"
  /\ ContainsCI(instruction, <<"g","m","a","i","l">>)
  /\ ContainsCI(instruction, <<"o","u","t","l","o","o","k">>)
  /\ email_data.service = GMAIL

\* C6 (as claimed): every token "to <addr>" whose <addr> contains "@" makes
\* the recipient exactly <addr>; when no "to " is followed by a token with
\* "@" the recipient is the default address.
C6_RecipientAsClaimed ==
  pc = "Parsed" =>
    /\ \A p \in 1..Len(instruction) :
         ( /\ p = 1 \/ instruction[p - 1] = " "
           /\ ToAt(instruction, p)
           /\ HasAt(TokenAt(instruction, p + 3)) )
         => email_data.recipient = TokenAt(instruction, p + 3)
    /\ (\A p \in 1..Len(instruction) :
          ToAt(lower(instruction), p)
            => ~HasAt(TokenAt(lower(instruction), p + 3)))
         => email_data.recipient = DefaultRecipient

\* C6 (amended): the recipient is read from the lower-cased instruction: the
\* text after its first "to " (wherever that stands, also at the end of a
\* word) up to the next space or the next "to " is the recipient when it
\* contains "@"; otherwise, and when there is no "to ", the recipient is the
\* default address.
C6_RecipientExtraction ==
  pc = "Parsed" =>
    LET low == lower(instruction) IN
    IF \E p \in 1..Len(low) : ToAt(low, p)
    THEN LET first == CHOOSE p \in 1..Len(low) :
                        ToAt(low, p) /\ \A q \in 1..(p - 1) : ~ToAt(low, q)
             from  == first + 3
             stop  == IF \E q \in from..SpaceFrom(low, from) : ToAt(low, q)
                      THEN SpaceFrom(low, from) - 2
                      ELSE SpaceFrom(low, from)
             cand  == SubSeq(low, from, stop - 1)
         IN email_data.recipient = IF HasAt(cand) THEN cand ELSE DefaultRecipient
    ELSE email_data.recipient = DefaultRecipient

\* C6 witness: "to A@B.co" has been parsed and the recipient is the
\* lower-cased address.
C6_Witness ==
  /\ pc = "Parsed"
  /\ instruction = <<"t","o"," ","A","@","B",".","c","o">>
  /\ email_data.recipient = <<"a","@","b",".","c","o">>

\* C7: the text handed to page.fill is the action's value with each ${key}
\* of a bound key replaced by exactly bindings[key], and nothing else changed.
C7_TemplateSubstitution ==
  \A k \in DOMAIN calls :
    calls[k].op = "fill" =>
      calls[k].text = Substituted(actions[calls[k].i].value, data, 1)

\* C8 (as claimed): the scenario instruction parses to recipient a@b.com,
\* subject "The meeting", the default body and Gmail, and is planned as the
\* five Gmail actions compose, recipient, subject, body, send.
C8_ScenarioAsClaimed ==
  (instruction = ScenarioInstruction /\ email_data # NoData) =>
    /\ email_data.recipient = <<"a","@","b",".","c","o","m">>
    /\ email_data.subject = <<"T","h","e"," ","m","e","e","t","i","n","g">>
    /\ email_data.body = DefaultBody
    /\ email_data.service = GMAIL
    /\ actions # <<>> =>
         /\ Len(actions) = 5
         /\ [j \in 1..5 |-> actions[j].action]
              = <<"click", "fill", "fill", "fill", "click">>
         /\ [j \in 1..5 |-> actions[j].selector]
              = << "div[role='button'][gh='cm']", "input[aria-label='To']",
                   "input[aria-label='Subject']",
                   "div[aria-label='Message Body']",
                   "div[role='button'][aria-label*='Send']" >>
         /\ [j \in 2..4 |-> actions[j].value]
              = (2 :> <<"$","{","r","e","c","i","p","i","e","n","t","}">> @@ 3 :> <<"$","{","s","u","b","j","e","c","t","}">>
                   @@ 4 :> <<"$","{","b","o","d","y","}">>)

\* C8 (amended): the scenario instruction parses to recipient a@b.com,
\* subject "The meeting using gmail" (everything after "about " up to the
\* next ".", lower-cased with a leading capital), the default body and
\* Gmail, and is planned as the five Gmail actions compose, recipient,
\* subject, body, send.
C8_Scenario ==
  (instruction = ScenarioInstruction /\ email_data # NoData) =>
    /\ email_data.recipient = <<"a","@","b",".","c","o","m">>
    /\ email_data.subject = <<"T","h","e"," ","m","e","e","t","i","n","g"," ","u","s","i","n","g"," ","g","m","a","i","l">>
    /\ email_data.body = DefaultBody
    /\ email_data.service = GMAIL
    /\ actions # <<>> =>
         /\ Len(actions) = 5
         /\ [j \in 1..5 |-> actions[j].action]
              = <<"click", "fill", "fill", "fill", "click">>
         /\ [j \in 1..5 |-> actions[j].selector]
              = << "div[role='button'][gh='cm']", "input[aria-label='To']",
                   "input[aria-label='Subject']",
                   "div[aria-label='Message Body']",
                   "div[role='button'][aria-label*='Send']" >>
         /\ [j \in 2..4 |-> actions[j].value]
              = (2 :> <<"$","{","r","e","c","i","p","i","e","n","t","}">> @@ 3 :> <<"$","{","s","u","b","j","e","c","t","}">>
                   @@ 4 :> <<"$","{","b","o","d","y","}">>)

\* C8 witness: the scenario instruction has been parsed and planned and the
\* executor is about to run its actions.
C8_Witness ==
  /\ instruction = ScenarioInstruction
  /\ pc = "Executing"
  /\ idx = 1
  /\ Len(actions) = 5

\* C9: every click or fill that was invoked, whether it returned or raised,
\* is followed by exactly one wait of the same loop iteration before the
\* next iteration starts.
C9_SettleDelay ==
  \A k \in DOMAIN calls :
    (calls[k].op \in {"click", "fill"} /\ (idx > calls[k].i))
      => Cardinality(CallsOf(calls[k].i, {"wait"})) = 1

\* C10: across the send_email calls the main script makes on its one agent,
\* even when no page operation fails while the browser is open, the browser
\* acquired at construction is released at most once (exactly once when a
\* call has returned), no call lets an exception out, and no page operation
\* is invoked on the released page.
C10_ResourceLifetime ==
  (caller = "main" /\ ~envFault) =>
    /\ closeCalls <= 1
    /\ pc = "Returned" => closeCalls = 1
    /\ pc \notin {"Raised", "Crashed"}
    /\ \A k \in DOMAIN calls : ~calls[k].released

====
